---- MODULE Spec2Model ----
(***************************************************************************)
(* Text Analysis API: the TextProcessor class (word ranking, term search,  *)
(* last-analysis persistence), the last_analysis table and the two routes  *)
(* POST /api/analyze-text and GET /api/search-term that drive them.        *)
(*                                                                         *)
(* Strings are tuples of one-character strings: "ab" is <<"a", "b">>.      *)
(* Each request is a Node.js async handler; every `await` is a point where *)
(* other handlers and other SQL statements may run.                        *)
(***************************************************************************)
EXTENDS Integers, Sequences, FiniteSets

(***************************************************************************)
(* Bounds of the model.                                                    *)
(***************************************************************************)
\* number of HTTP requests the server receives in one behaviour
MaxReq == 3
\* longest search term a client sends
MaxTermLen == 2
\* longest words list the language model returns to the ranking run
MaxWords == 6

(***************************************************************************)
(* Values.                                                                 *)
(***************************************************************************)
\* characters of request texts and terms
Chars == {"a", "A", "b", " "}
\* an absent JSON body field or query parameter (undefined)
Missing == <<"undefined">>
\* the empty string
Empty == << >>

\* texts clients post to /analyze-text: absent, empty, blank, and real ones
ValidTexts == { <<"a", "b">>, <<"b", " ", "A">> }
TextInputs == {Missing, Empty, <<" ">>} \cup ValidTexts

\* all sequences over S of length 0..n
SeqsUpTo(S, n) == UNION { [1..k -> S] : k \in 0..n }

\* terms clients send to /search-term: absent, empty, and real ones
TermInputs == {Missing} \cup SeqsUpTo(Chars, MaxTermLen)

Req == 1..MaxReq

(***************************************************************************)
(* Word statistics returned by the language model.                         *)
(***************************************************************************)
\* letters of the words the model returns
Letters == {"a", "A", "b", "B"}
\* a WordStat: { word, count, isStopWord }
WordStat(w, c, s) == [word |-> w, count |-> c, isStopWord |-> s]

(***************************************************************************)
(* String.prototype.localeCompare under the default (root) collation:      *)
(* strings are compared letter by letter ignoring case first (a shorter    *)
(* prefix sorts first); only when that finds no difference does case       *)
(* decide, lower case before upper case at the first differing position.   *)
(* It is not the code-unit order, where "B" < "a".                         *)
(***************************************************************************)
\* primary collation weight of a character
PrimaryWeight ==
  [ c \in Chars \cup Letters |->
      CASE c = " " -> 0
        [] c \in {"a", "A"} -> 1
        [] c \in {"b", "B"} -> 2 ]
\* tertiary (case) collation weight of a character
TertiaryWeight ==
  [ c \in Chars \cup Letters |-> IF c \in {"A", "B"} THEN 1 ELSE 0 ]

RECURSIVE CompareKeys(_, _, _, _)
\* lexicographic comparison of x and y from position i by weight W: -1, 0, 1
CompareKeys(W, x, y, i) ==
  IF i > Len(x) /\ i > Len(y) THEN 0
  ELSE IF i > Len(x) THEN -1
  ELSE IF i > Len(y) THEN 1
  ELSE IF W[x[i]] < W[y[i]] THEN -1
  ELSE IF W[x[i]] > W[y[i]] THEN 1
  ELSE CompareKeys(W, x, y, i + 1)

\* x.localeCompare(y)
LocaleCompare(x, y) ==
  LET primary == CompareKeys(PrimaryWeight, x, y, 1)
  IN  IF primary # 0 THEN primary ELSE CompareKeys(TertiaryWeight, x, y, 1)

\* a comparator that ranks by count ascending
SortByCountAscending(a, b) ==
  IF b.count # a.count THEN a.count - b.count
  ELSE LocaleCompare(a.word, b.word)

\* the comparator of inputIAData: count descending, then word ascending
SortByCountAndAlpha(a, b) ==
  IF b.count # a.count THEN b.count - a.count
  ELSE LocaleCompare(a.word, b.word)

RECURSIVE ReduceContentWords(_, _)
\* a reduce that runs over the content words only
ReduceContentWords(words, i) ==
  IF i > Len(words) THEN 0
  ELSE (IF words[i].isStopWord THEN 0 ELSE words[i].count)
       + ReduceContentWords(words, i + 1)

RECURSIVE Reduce(_, _)
\* words.reduce((sum, w) => sum + w.count, 0)
Reduce(words, i) ==
  IF i > Len(words) THEN 0 ELSE words[i].count + Reduce(words, i + 1)

\* a filter that reads a misspelt property: !undefined keeps every word
FilterMisspeltFlag(words) == words

\* aiResult.words.filter(w => !w.isStopWord)
FilterNonStopWords(words) == SelectSeq(words, LAMBDA w : ~w.isStopWord)

\* aiResult.words.filter(w => w.isStopWord)
FilterStopWords(words) == SelectSeq(words, LAMBDA w : w.isStopWord)

\* an insertion that puts e before the elements the comparator ties with it
InsertSortedBeforeEqual(sorted, e) ==
  LET later == { i \in 1..Len(sorted) : SortByCountAndAlpha(sorted[i], e) >= 0 }
      at == IF later = {} THEN Len(sorted) + 1
            ELSE CHOOSE i \in later : \A j \in later : i <= j
  IN  SubSeq(sorted, 1, at - 1) \o <<e>> \o SubSeq(sorted, at, Len(sorted))

\* one insertion of the stable sort: e goes before the first element of
\* sorted that the comparator puts strictly after it
InsertSorted(sorted, e) ==
  LET later == { i \in 1..Len(sorted) : SortByCountAndAlpha(sorted[i], e) > 0 }
      at == IF later = {} THEN Len(sorted) + 1
            ELSE CHOOSE i \in later : \A j \in later : i <= j
  IN  SubSeq(sorted, 1, at - 1) \o <<e>> \o SubSeq(sorted, at, Len(sorted))

RECURSIVE SortFrom(_, _, _)
\* the stable sort after the first i - 1 elements of words were inserted
SortFrom(words, i, sorted) ==
  IF i > Len(words) THEN sorted
  ELSE SortFrom(words, i + 1, InsertSorted(sorted, words[i]))

\* words.sort(sortByCountAndAlpha): Array.prototype.sort is a stable sort
Sort(words) == SortFrom(words, 1, << >>)

\* a slice that also takes the element at index to
SliceInclusive(words, from, to) ==
  SubSeq(words, from + 1, IF to + 1 < Len(words) THEN to + 1 ELSE Len(words))

\* nonStopWords.slice(0, 5)
Slice(words, from, to) ==
  SubSeq(words, from + 1, IF to < Len(words) THEN to ELSE Len(words))

\* the number of content words reported as top words
TopCount == 5

\* the catch block of inputIAData
AiErrorOutput == [ error |-> "Error retrieving analysis from AI" ]

\* a try block whose reduce has no initial value: it throws on an empty list
ProcessAiResultNoInitialValue(parsed) ==
  IF parsed.words = << >> THEN AiErrorOutput
  ELSE LET nonStopWords ==
             Sort(FilterNonStopWords(parsed.words))
       IN  [ idiom |-> parsed.idiom,
             sentiment |-> parsed.sentiment,
             total_words |-> Reduce(parsed.words, 1),
             top_5_words |-> Slice(nonStopWords, 0, TopCount),
             non_stopwords |-> nonStopWords,
             stopwords |-> Sort(FilterStopWords(parsed.words)) ]

\* the try block of inputIAData after the model answered parsed
ProcessAiResult(parsed) ==
  LET total_words == Reduce(parsed.words, 1)
      nonStopWords == Sort(FilterNonStopWords(parsed.words))
      stopWords == Sort(FilterStopWords(parsed.words))
      top5NonStopWords == Slice(nonStopWords, 0, TopCount)
  IN  [ idiom |-> parsed.idiom,
        sentiment |-> parsed.sentiment,
        total_words |-> total_words,
        top_5_words |-> top5NonStopWords,
        non_stopwords |-> nonStopWords,
        stopwords |-> stopWords ]

\* processor.output before inputIAData has set it (this.output = null)
NullOutput == [ null |-> TRUE ]

(***************************************************************************)
(* What the language model may answer.                                     *)
(***************************************************************************)
Idioms == {"English"}
Sentiments == {"positive"}
\* word lists the model returns to the requests of the server run
ServerBags ==
  { << >>,
    << WordStat(<<"a">>, 1, TRUE), WordStat(<<"b">>, 2, FALSE),
       WordStat(<<"A">>, 2, FALSE) >> }
\* completions the model returns to the requests of the server run: they
\* differ in idiom, sentiment and words
ServerResults ==
  { [ idiom |-> IF b = << >> THEN "Portuguese" ELSE "English",
      sentiment |-> IF b = << >> THEN "negative" ELSE "positive",
      words |-> b ] : b \in ServerBags }
\* word lists the model returns in the ranking run: every list of at most
\* MaxWords entries, duplicates and either flag allowed
RankStats == { << <<"a">>, 1 >>, << <<"B">>, 1 >>, << <<"B">>, 2 >> }
RankEntries == { WordStat(ws[1], ws[2], s) : ws \in RankStats, s \in BOOLEAN }
RankBags == SeqsUpTo(RankEntries, MaxWords)
\* the word lists of RankBags with every entry a distinct object: the
\* field at, its index in the list, stands for the identity of the object
TaggedBags ==
  { [ i \in DOMAIN b |->
        [ word |-> b[i].word, count |-> b[i].count,
          isStopWord |-> b[i].isStopWord, at |-> i ] ] : b \in RankBags }
\* the parsed JSON of a completion: { idiom, sentiment, words }
AiResults(bags) == [ idiom : Idioms, sentiment : Sentiments, words : bags ]

(***************************************************************************)
(* Strings.                                                                *)
(***************************************************************************)
RECURSIVE TrimStart(_)
TrimStart(s) ==
  IF Len(s) > 0 /\ Head(s) = " " THEN TrimStart(Tail(s)) ELSE s
RECURSIVE TrimEnd(_)
TrimEnd(s) ==
  IF Len(s) > 0 /\ s[Len(s)] = " " THEN TrimEnd(SubSeq(s, 1, Len(s) - 1))
  ELSE s
\* a validation that compares the text untrimmed
TrimNothing(s) == s

\* String.prototype.trim
Trim(s) == TrimEnd(TrimStart(s))

\* !value for a string-or-undefined value: undefined and "" are falsy
Falsy(s) == s = Missing \/ s = Empty

\* String.prototype.toLowerCase
ToLowerCase(s) ==
  [ i \in DOMAIN s |-> CASE s[i] = "A" -> "a" [] s[i] = "B" -> "b" [] OTHER -> s[i] ]

RECURSIVE MatchAt(_, _, _, _)
\* do the characters of term from its k-th on match text at offset at
MatchAt(text, term, at, k) ==
  IF k > Len(term) THEN TRUE
  ELSE IF text[at + k - 1] # term[k] THEN FALSE
  ELSE MatchAt(text, term, at, k + 1)

RECURSIVE IndexOfFrom(_, _, _)
\* the first position >= at where term occurs in text, 0 when there is none
IndexOfFrom(text, term, at) ==
  IF at + Len(term) - 1 > Len(text) THEN 0
  ELSE IF MatchAt(text, term, at, 1) THEN at
  ELSE IndexOfFrom(text, term, at + 1)

\* an includes that ignores case
IncludesIgnoringCase(text, term) ==
  IndexOfFrom(ToLowerCase(text), ToLowerCase(term), 1) # 0

\* text.includes(term)
Includes(text, term) == IndexOfFrom(text, term, 1) # 0

(***************************************************************************)
(* State.                                                                  *)
(***************************************************************************)
VARIABLES
  table,      \* rows of last_analysis: a set of [id, text]
  seq,        \* AUTOINCREMENT: the largest id ever given
  pc,         \* where each request's handler is suspended
  kind,       \* which route each request went to
  arg,        \* req.body.text or req.query.term of each request
  aiResult,   \* the parsed completion inputIAData got for each request
  output,     \* processor.output of each request
  lastAnalysis, \* the row searchTerm read: a sequence of at most one row
  termFoundedInLastAnalysis,  \* processor.termFoundedInLastAnalysis
  res,        \* the HTTP response of each request
  consoleError, \* did a catch block log a database error for the request
  lastSave,   \* history: the saveLastAnalysis call that finished last
  overlapped  \* history: two saveLastAnalysis calls ran at the same time

vars == << table, seq, pc, kind, arg, aiResult, output, lastAnalysis,
           termFoundedInLastAnalysis, res, consoleError, lastSave,
           overlapped >>

\* no response sent yet
NoResponse == [ status |-> 0 ]
\* res.status(s).json(b)
Response(s, b) == [ status |-> s, body |-> b ]
\* inputIAData has no parsed completion (yet)
NoAiResult == [ none |-> TRUE ]
\* no saveLastAnalysis call has finished yet
NoSave == [ done |-> FALSE, text |-> Empty, ok |-> FALSE ]

Init ==
  /\ table = {}
  /\ seq = 0
  /\ pc = [ r \in Req |-> "idle" ]
  /\ kind = [ r \in Req |-> "none" ]
  /\ arg = [ r \in Req |-> Missing ]
  /\ aiResult = [ r \in Req |-> NoAiResult ]
  /\ output = [ r \in Req |-> NullOutput ]
  /\ lastAnalysis = [ r \in Req |-> << >> ]
  /\ termFoundedInLastAnalysis = [ r \in Req |-> FALSE ]
  /\ res = [ r \in Req |-> NoResponse ]
  /\ consoleError = [ r \in Req |-> FALSE ]
  /\ lastSave = NoSave
  /\ overlapped = FALSE

\* requests arrive in the order of their numbers
Arrives(r) == pc[r] = "idle" /\ \A q \in Req : q < r => pc[q] # "idle"

\* a saveLastAnalysis call is between its first and its last statement
Saving(r) == pc[r] \in {"delete", "insert"}

(***************************************************************************)
(* POST /api/analyze-text                                                  *)
(***************************************************************************)
\* the handler up to its first await: validation, new TextProcessor,
\* inputIAData up to axios.post
AnalyzeRequest(r, text) ==
  /\ Arrives(r)
  /\ kind' = [kind EXCEPT ![r] = "analyze"]
  /\ arg' = [arg EXCEPT ![r] = text]
  /\ IF Falsy(text) \/ Trim(text) = Empty
     THEN /\ res' = [res EXCEPT ![r] = Response(400, [error |-> "Text is required."])]
          /\ pc' = [pc EXCEPT ![r] = "done"]
     ELSE /\ pc' = [pc EXCEPT ![r] = "ai"]
          /\ UNCHANGED res
  /\ UNCHANGED << table, seq, aiResult, output, lastAnalysis,
                  termFoundedInLastAnalysis, consoleError, lastSave,
                  overlapped >>

\* saveLastAnalysis is entered: DELETE is issued
StartSave(r) ==
  /\ pc' = [pc EXCEPT ![r] = "delete"]
  /\ overlapped' = (overlapped \/ \E q \in Req \ {r} : Saving(q))

\* axios.post resolved and its content parsed to aiResult: the rest of
\* inputIAData, then saveLastAnalysis up to its first await
AiAnswers(r, parsed) ==
  /\ pc[r] = "ai"
  /\ aiResult' = [aiResult EXCEPT ![r] = parsed]
  /\ output' = [output EXCEPT ![r] = ProcessAiResult(parsed)]
  /\ StartSave(r)
  /\ UNCHANGED << table, seq, kind, arg, lastAnalysis,
                  termFoundedInLastAnalysis, res, consoleError, lastSave >>

\* a catch block that falls back to the ranking of an empty words list
AiFailsEmptyRanking(r) ==
  /\ pc[r] = "ai"
  /\ output' = [output EXCEPT ![r] =
       ProcessAiResult([ idiom |-> "unknown", sentiment |-> "neutral",
                         words |-> << >> ])]
  /\ StartSave(r)
  /\ UNCHANGED << table, seq, kind, arg, aiResult, lastAnalysis,
                  termFoundedInLastAnalysis, res, consoleError, lastSave >>

\* axios.post rejected, or the completion is not the JSON asked for: the
\* catch block of inputIAData, then saveLastAnalysis up to its first await
AiFails(r) ==
  /\ pc[r] = "ai"
  /\ output' = [output EXCEPT ![r] = AiErrorOutput]
  /\ StartSave(r)
  /\ UNCHANGED << table, seq, kind, arg, aiResult, lastAnalysis,
                  termFoundedInLastAnalysis, res, consoleError, lastSave >>

\* a route that keeps one TextProcessor for all requests: it answers with the
\* output of the request that came last
FinishSaveSharedProcessor(r, ok) ==
  LET last == CHOOSE q \in Req :
                /\ output[q] # NullOutput
                /\ \A p \in Req : output[p] # NullOutput => p <= q
  IN  /\ consoleError' = [consoleError EXCEPT ![r] = ~ok]
      /\ lastSave' = [ done |-> TRUE, text |-> arg[r], ok |-> ok ]
      /\ res' = [res EXCEPT ![r] = Response(200, output[last])]
      /\ pc' = [pc EXCEPT ![r] = "done"]

\* a saveLastAnalysis without its try/catch: a failed statement reaches the
\* catch block of the route
FinishSaveRethrows(r, ok) ==
  /\ consoleError' = [consoleError EXCEPT ![r] = ~ok]
  /\ lastSave' = [ done |-> TRUE, text |-> arg[r], ok |-> ok ]
  /\ res' = [res EXCEPT ![r] =
       IF ok THEN Response(200, output[r])
       ELSE Response(500, [error |-> "Error analyzing text."])]
  /\ pc' = [pc EXCEPT ![r] = "done"]

\* saveLastAnalysis returned: the route answers with processor.outputData()
FinishSave(r, ok) ==
  /\ consoleError' = [consoleError EXCEPT ![r] = ~ok]
  /\ lastSave' = [ done |-> TRUE, text |-> arg[r], ok |-> ok ]
  /\ res' = [res EXCEPT ![r] = Response(200, output[r])]
  /\ pc' = [pc EXCEPT ![r] = "done"]

\* DELETE FROM last_analysis ran: INSERT is issued
DeleteRuns(r) ==
  /\ pc[r] = "delete"
  /\ table' = {}
  /\ pc' = [pc EXCEPT ![r] = "insert"]
  /\ UNCHANGED << seq, kind, arg, aiResult, output, lastAnalysis,
                  termFoundedInLastAnalysis, res, consoleError, lastSave,
           overlapped >>

\* DELETE failed: the catch block of saveLastAnalysis, INSERT is not issued
DeleteFails(r) ==
  /\ pc[r] = "delete"
  /\ FinishSave(r, FALSE)
  /\ UNCHANGED << table, seq, kind, arg, aiResult, output, lastAnalysis,
                  termFoundedInLastAnalysis, overlapped >>

\* a save that does not await its DELETE, which then runs after the INSERT
InsertRunsBeforeDelete(r) ==
  /\ pc[r] = "insert"
  /\ seq' = seq + 1
  /\ table' = {}
  /\ FinishSave(r, TRUE)
  /\ UNCHANGED << kind, arg, aiResult, output, lastAnalysis,
                  termFoundedInLastAnalysis, overlapped >>

\* INSERT INTO last_analysis (text) VALUES (?) ran
InsertRuns(r) ==
  /\ pc[r] = "insert"
  /\ seq' = seq + 1
  /\ table' = table \cup { [ id |-> seq + 1, text |-> arg[r] ] }
  /\ FinishSave(r, TRUE)
  /\ UNCHANGED << kind, arg, aiResult, output, lastAnalysis,
                  termFoundedInLastAnalysis, overlapped >>

\* INSERT failed: the catch block of saveLastAnalysis
InsertFails(r) ==
  /\ pc[r] = "insert"
  /\ FinishSave(r, FALSE)
  /\ UNCHANGED << table, seq, kind, arg, aiResult, output, lastAnalysis,
                  termFoundedInLastAnalysis, overlapped >>

(***************************************************************************)
(* GET /api/search-term                                                    *)
(***************************************************************************)
\* the handler up to its first await: validation, new TextProcessor,
\* searchTerm up to dbGet
SearchRequest(r, term) ==
  /\ Arrives(r)
  /\ kind' = [kind EXCEPT ![r] = "search"]
  /\ arg' = [arg EXCEPT ![r] = term]
  /\ IF Falsy(term)
     THEN /\ res' = [res EXCEPT ![r] = Response(400, [error |-> "Term is required"])]
          /\ pc' = [pc EXCEPT ![r] = "done"]
     ELSE /\ pc' = [pc EXCEPT ![r] = "get"]
          /\ UNCHANGED res
  /\ UNCHANGED << table, seq, aiResult, output, lastAnalysis,
                  termFoundedInLastAnalysis, consoleError, lastSave,
                  overlapped >>

\* SELECT text FROM last_analysis ORDER BY id DESC LIMIT 1
SelectLast(rows) ==
  IF rows = {} THEN << >>
  ELSE << CHOOSE row \in rows : \A other \in rows : other.id <= row.id >>

\* the route's answer to a search
SearchResponse(term, found) ==
  Response(200, [ term |-> term, termFoundedInLastAnalysis |-> found ])

\* a route that answers 404 when there is no previous analysis
GetRunsNotFound(r) ==
  LET row == SelectLast(table)
      found == IF row # << >> THEN Includes(row[1].text, arg[r]) ELSE FALSE
  IN  /\ pc[r] = "get"
      /\ lastAnalysis' = [lastAnalysis EXCEPT ![r] = row]
      /\ termFoundedInLastAnalysis' =
           [termFoundedInLastAnalysis EXCEPT ![r] = found]
      /\ res' = [res EXCEPT ![r] =
                   IF row = << >>
                   THEN Response(404, [error |-> "No previous analysis found"])
                   ELSE SearchResponse(arg[r], found)]
      /\ pc' = [pc EXCEPT ![r] = "done"]
      /\ UNCHANGED << table, seq, kind, arg, aiResult, output, consoleError,
                      lastSave, overlapped >>

\* dbGet resolved: the rest of searchTerm and of the route
GetRuns(r) ==
  LET row == SelectLast(table)
      found == IF row # << >> THEN Includes(row[1].text, arg[r]) ELSE FALSE
  IN  /\ pc[r] = "get"
      /\ lastAnalysis' = [lastAnalysis EXCEPT ![r] = row]
      /\ termFoundedInLastAnalysis' =
           [termFoundedInLastAnalysis EXCEPT ![r] = found]
      /\ res' = [res EXCEPT ![r] = SearchResponse(arg[r], found)]
      /\ pc' = [pc EXCEPT ![r] = "done"]
      /\ UNCHANGED << table, seq, kind, arg, aiResult, output, consoleError,
                      lastSave, overlapped >>

\* a searchTerm whose read error reaches the route, answered with 500
GetFailsErrorResponse(r) ==
  /\ pc[r] = "get"
  /\ termFoundedInLastAnalysis' =
       [termFoundedInLastAnalysis EXCEPT ![r] = FALSE]
  /\ res' = [res EXCEPT ![r] = Response(500, [error |-> "Error searching term"])]
  /\ consoleError' = [consoleError EXCEPT ![r] = TRUE]
  /\ pc' = [pc EXCEPT ![r] = "done"]
  /\ UNCHANGED << table, seq, kind, arg, aiResult, output, lastAnalysis,
                  lastSave, overlapped >>

\* dbGet rejected: the catch block of searchTerm, then the rest of the route
GetFails(r) ==
  /\ pc[r] = "get"
  /\ termFoundedInLastAnalysis' =
       [termFoundedInLastAnalysis EXCEPT ![r] = FALSE]
  /\ res' = [res EXCEPT ![r] = SearchResponse(arg[r], FALSE)]
  /\ consoleError' = [consoleError EXCEPT ![r] = TRUE]
  /\ pc' = [pc EXCEPT ![r] = "done"]
  /\ UNCHANGED << table, seq, kind, arg, aiResult, output, lastAnalysis,
                  lastSave, overlapped >>

(***************************************************************************)
(* The server: MaxReq requests, handled concurrently.                      *)
(***************************************************************************)
Next ==
  \/ \E r \in Req, text \in TextInputs : AnalyzeRequest(r, text)
  \/ \E r \in Req, parsed \in ServerResults : AiAnswers(r, parsed)
  \/ \E r \in Req : AiFails(r)
  \/ \E r \in Req : DeleteRuns(r)
  \/ \E r \in Req : DeleteFails(r)
  \/ \E r \in Req : InsertRuns(r)
  \/ \E r \in Req : InsertFails(r)
  \/ \E r \in Req, term \in TermInputs : SearchRequest(r, term)
  \/ \E r \in Req : GetRuns(r)
  \/ \E r \in Req : GetFails(r)

Spec == Init /\ [][Next]_vars

(***************************************************************************)
(* The ranking run: one analysis request, answered by the model with any   *)
(* word list of RankBags.                                                  *)
(***************************************************************************)
NextRank ==
  \/ \E text \in {Missing, <<"a", "b">>} : AnalyzeRequest(1, text)
  \/ pc[1] = "ai" /\ \E parsed \in AiResults(RankBags) : AiAnswers(1, parsed)
  \/ AiFails(1)

SpecRank == Init /\ [][NextRank]_vars

(***************************************************************************)
(* The ranking run over word lists whose entries are told apart.           *)
(***************************************************************************)
NextStable ==
  \/ \E text \in {Missing, <<"a", "b">>} : AnalyzeRequest(1, text)
  \/ pc[1] = "ai" /\ \E parsed \in AiResults(TaggedBags) : AiAnswers(1, parsed)
  \/ AiFails(1)

SpecStable == Init /\ [][NextStable]_vars

(***************************************************************************)
(* Properties of the word ranking.                                         *)
(***************************************************************************)
\* inputIAData produced a ranking for request r
Ranked(r) == aiResult[r] # NoAiResult /\ "total_words" \in DOMAIN output[r]
\* the word list the model returned for request r
InputBag(r) == aiResult[r].words
\* how many times entry e occurs in list l
Occurrences(l, e) == Cardinality({ i \in DOMAIN l : l[i] = e })
\* the entries of list l
Entries(l) == { l[i] : i \in DOMAIN l }
\* the sum of count over list l, counted as the occurrences it stands for
TotalCount(l) ==
  Cardinality(UNION { { <<i, k>> : k \in 1..l[i].count } : i \in DOMAIN l })
\* how many entries of list l are content words
ContentWords(l) == Cardinality({ i \in DOMAIN l : ~l[i].isStopWord })

\* C1: total_words of every analysis result is the sum of count over all
\* entries of the word list the model returned, stopwords included.
C1_TotalWordsIsSumOfCounts ==
  \A r \in Req : Ranked(r) => output[r].total_words = TotalCount(InputBag(r))

\* a ranking of a list holding stopwords and content words
C1_Witness ==
  \E r \in Req :
    /\ Ranked(r)
    /\ ContentWords(InputBag(r)) >= 2
    /\ Len(InputBag(r)) - ContentWords(InputBag(r)) >= 2
    /\ output[r].total_words >= 6

\* C2: non_stopwords holds exactly the entries with isStopWord = false and
\* stopwords exactly those with isStopWord = true, each unchanged and as
\* often as in the input; no entry is in both lists.
C2_PartitionByStopWord ==
  \A r \in Req : Ranked(r) =>
    LET in == InputBag(r)
        ns == output[r].non_stopwords
        sw == output[r].stopwords
    IN  /\ \A e \in Entries(in) \cup Entries(ns) \cup Entries(sw) :
             /\ Occurrences(ns, e) =
                  (IF e.isStopWord THEN 0 ELSE Occurrences(in, e))
             /\ Occurrences(sw, e) =
                  (IF e.isStopWord THEN Occurrences(in, e) ELSE 0)
             /\ Occurrences(ns, e) + Occurrences(sw, e) = Occurrences(in, e)
        /\ Entries(ns) \cap Entries(sw) = {}

\* a ranking whose input mixes both kinds and repeats an entry
C2_Witness ==
  \E r \in Req :
    /\ Ranked(r)
    /\ Len(output[r].non_stopwords) >= 2
    /\ Len(output[r].stopwords) >= 2
    /\ \E e \in Entries(InputBag(r)) : Occurrences(InputBag(r), e) >= 2

\* is key sequence x before key sequence y in lexicographic order
LexLess(x, y) ==
  \E i \in 1..Len(y) :
    /\ \A j \in 1..(i - 1) : j <= Len(x) /\ x[j] = y[j]
    /\ i > Len(x) \/ x[i] < y[i]
\* the collation keys of a word
PrimaryKey(w) == [ i \in DOMAIN w |-> PrimaryWeight[w[i]] ]
TertiaryKey(w) == [ i \in DOMAIN w |-> TertiaryWeight[w[i]] ]
\* word x is at or before word y in the locale's dictionary order
WordLeq(x, y) ==
  \/ LexLess(PrimaryKey(x), PrimaryKey(y))
  \/ /\ PrimaryKey(x) = PrimaryKey(y)
     /\ LexLess(TertiaryKey(x), TertiaryKey(y)) \/ TertiaryKey(x) = TertiaryKey(y)
\* every adjacent pair of list l is in ranking order
InRankingOrder(l) ==
  \A i \in 1..(Len(l) - 1) :
    \/ l[i].count > l[i + 1].count
    \/ l[i].count = l[i + 1].count /\ WordLeq(l[i].word, l[i + 1].word)

\* C3: in non_stopwords and in stopwords every adjacent pair is in ranking
\* order: a strictly greater count first, or an equal count and a word at or
\* before the next one in the locale-aware dictionary order.
C3_ListsInRankingOrder ==
  \A r \in Req : Ranked(r) =>
    InRankingOrder(output[r].non_stopwords) /\ InRankingOrder(output[r].stopwords)

\* a ranking that had to reorder both lists, by count and by word
C3_Witness ==
  \E r \in Req :
    /\ Ranked(r)
    /\ InputBag(r) =
         << WordStat(<<"B">>, 1, FALSE), WordStat(<<"B">>, 1, TRUE),
            WordStat(<<"a">>, 1, FALSE), WordStat(<<"B">>, 2, TRUE),
            WordStat(<<"a">>, 1, TRUE), WordStat(<<"B">>, 2, FALSE) >>
    /\ output[r].non_stopwords =
         << WordStat(<<"B">>, 2, FALSE), WordStat(<<"a">>, 1, FALSE),
            WordStat(<<"B">>, 1, FALSE) >>
    /\ output[r].stopwords =
         << WordStat(<<"B">>, 2, TRUE), WordStat(<<"a">>, 1, TRUE),
            WordStat(<<"B">>, 1, TRUE) >>

\* C4: top_5_words is the first min(5, length of non_stopwords) entries of
\* the sorted non_stopwords, in the same order: all of them when there are
\* fewer than 5, and never a stopword.
C4_TopFiveIsPrefix ==
  \A r \in Req : Ranked(r) =>
    LET ns == output[r].non_stopwords
        top == output[r].top_5_words
        n == IF Len(ns) < 5 THEN Len(ns) ELSE 5
    IN  /\ Len(top) = n
        /\ \A i \in 1..n : top[i] = ns[i]
        /\ \A i \in DOMAIN top : ~top[i].isStopWord

\* a ranking of more than 5 content words, cut to 5
C4_Witness ==
  \E r \in Req :
    /\ Ranked(r)
    /\ Len(output[r].non_stopwords) = 6
    /\ Len(output[r].top_5_words) = 5
    /\ output[r].non_stopwords[6] # output[r].non_stopwords[1]

\* C5: when the model returns an empty words list the result has
\* total_words = 0 and empty top_5_words, non_stopwords and stopwords, and
\* it is not the error result.
C5_EmptyInput ==
  \A r \in Req :
    (pc[r] # "ai" /\ aiResult[r] # NoAiResult /\ aiResult[r].words = << >>) =>
      /\ "error" \notin DOMAIN output[r]
      /\ DOMAIN output[r] = { "idiom", "sentiment", "total_words",
                               "top_5_words", "non_stopwords", "stopwords" }
      /\ output[r].total_words = 0
      /\ output[r].top_5_words = << >>
      /\ output[r].non_stopwords = << >>
      /\ output[r].stopwords = << >>

\* the model answered with an empty words list
C5_Witness ==
  \E r \in Req :
    /\ pc[r] = "delete"
    /\ aiResult[r] # NoAiResult
    /\ aiResult[r].words = << >>
    /\ output[r] # NullOutput

(***************************************************************************)
(* Properties of the store and of the search.                              *)
(***************************************************************************)
\* term occurs in text as a run of adjacent characters, compared as they are
Contains(text, term) ==
  \E off \in 0..(Len(text) - Len(term)) :
    \A k \in 1..Len(term) : text[off + k] = term[k]
\* request r's searchTerm reads the store in this step, without an error
Reads(r) == pc[r] = "get" /\ pc'[r] = "done" /\ ~consoleError'[r]
\* request r's searchTerm finishes in this step, read error or not
Searches(r) == pc[r] = "get" /\ pc'[r] = "done"
\* some saveLastAnalysis call has completed both its statements
SomeSaveCompleted ==
  \E q \in Req : kind[q] = "analyze" /\ pc[q] = "done"
                  /\ res[q].status = 200 /\ ~consoleError[q]
\* no saveLastAnalysis call has failed
NoSaveFailed == \A q \in Req : kind[q] = "analyze" => ~consoleError[q]

\* C6: after saves that ran one after another, the last of them complete, a
\* search that reads the store while no save is running answers for the
\* text of the most recent save only: found exactly when the term is in it.
C6_SearchSeesLatestSave ==
  [][ \A r \in Req :
        ( /\ Reads(r)
          /\ lastSave.done /\ lastSave.ok
          /\ ~overlapped
          /\ \A q \in Req : ~Saving(q) )
        => termFoundedInLastAnalysis'[r] = Contains(lastSave.text, arg[r]) ]_vars

\* two saves one after the other, then a search for a term of the first text
\* only: it read the second text and did not find the term
C6_Witness ==
  /\ ~overlapped
  /\ kind = << "analyze", "analyze", "search" >>
  /\ pc = << "done", "done", "done" >>
  /\ arg = << <<"a", "b">>, <<"b", " ", "A">>, <<"a">> >>
  /\ lastSave = [ done |-> TRUE, text |-> <<"b", " ", "A">>, ok |-> TRUE ]
  /\ lastAnalysis[3] = << [ id |-> 2, text |-> <<"b", " ", "A">> ] >>
  /\ termFoundedInLastAnalysis[3] = FALSE
  /\ res[3].status = 200

\* C7: once a save has completed, a search that reads the store while a
\* later save is running never gets zero rows (no save failed, and no two
\* saves ran at the same time).
C7_NoEmptyReadDuringSave ==
  [][ \A r \in Req :
        ( /\ Reads(r)
          /\ SomeSaveCompleted
          /\ NoSaveFailed
          /\ ~overlapped
          /\ \E q \in Req : Saving(q) )
        => lastAnalysis'[r] # << >> ]_vars

\* C8: the last_analysis table never holds more than one row.
C8_AtMostOneRow == Cardinality(table) <= 1

RankingFields == { "total_words", "top_5_words", "non_stopwords", "stopwords" }
\* request r is an analysis request that passed validation and was answered
Analyzed(r) == kind[r] = "analyze" /\ pc[r] = "done" /\ res[r].status # 400
\* request r is a search request that passed validation and was answered
Searched(r) == kind[r] = "search" /\ pc[r] = "done" /\ res[r].status # 400
\* the model call of analysis request r failed: no completion was parsed
ModelFailed(r) == kind[r] = "analyze" /\ aiResult[r] = NoAiResult
                    /\ pc[r] \in {"delete", "insert", "done"}
                    /\ res[r].status # 400
\* every character of s is a blank
Blank(s) == \A i \in DOMAIN s : s[i] = " "

\* C11: an analysis request whose model call succeeded and whose DELETE or
\* INSERT failed is answered 200 with the summary computed from the model's
\* answer, not with an error.
C11_SummaryDespiteFailedSave ==
  \A r \in Req :
    (Analyzed(r) /\ aiResult[r] # NoAiResult /\ consoleError[r]) =>
      /\ res[r].status = 200
      /\ "error" \notin DOMAIN res[r].body
      /\ RankingFields \subseteq DOMAIN res[r].body
      /\ res[r].body.idiom = aiResult[r].idiom
      /\ res[r].body.sentiment = aiResult[r].sentiment
      /\ res[r].body.total_words = TotalCount(InputBag(r))
      /\ Len(res[r].body.non_stopwords) = ContentWords(InputBag(r))

\* an analysis whose INSERT failed after its DELETE had emptied the table,
\* answered with a summary of three words
C11_Witness ==
  \E r \in Req :
    /\ Analyzed(r) /\ aiResult[r] # NoAiResult /\ consoleError[r]
    /\ seq = 1 /\ table = {}
    /\ res[r].status = 200
    /\ res[r].body.total_words = 5
    /\ Len(res[r].body.non_stopwords) = 2

\* C12: an analysis request whose model call failed is answered with the
\* error object alone: none of the ranking fields is in the response or in
\* processor.output.
C12_ErrorWithoutRanking ==
  \A r \in Req :
    ModelFailed(r) =>
      /\ output[r] = [ error |-> "Error retrieving analysis from AI" ]
      /\ DOMAIN output[r] \cap RankingFields = {}
      /\ pc[r] = "done" =>
           /\ DOMAIN res[r].body = { "error" }
           /\ res[r].body.error = "Error retrieving analysis from AI"

\* an answered analysis request whose model call had failed
C12_Witness ==
  \E r \in Req :
    /\ ModelFailed(r) /\ pc[r] = "done"
    /\ "error" \in DOMAIN res[r].body

\* C13: an analysis request without text, with an empty or with a blank
\* text, and a search request without term, is answered 400 in the step it
\* arrives in; that step leaves the table alone, and the request never has
\* a completion, an output, a row read or a logged database error.
C13_ClientErrorTouchesNothing ==
  [][ \A r \in Req :
        ( /\ pc[r] = "idle" /\ pc'[r] # "idle"
          /\ \/ kind'[r] = "analyze"
                /\ (arg'[r] = Missing \/ arg'[r] = Empty \/ Blank(arg'[r]))
             \/ kind'[r] = "search" /\ arg'[r] = Missing )
        => /\ pc'[r] = "done"
           /\ res'[r].status = 400
           /\ DOMAIN res'[r].body = { "error" }
           /\ table' = table /\ seq' = seq
           /\ aiResult'[r] = NoAiResult /\ output'[r] = NullOutput
           /\ lastAnalysis'[r] = << >> /\ ~consoleError'[r] ]_vars

\* a blank text and a missing term were refused while the table held the
\* row of an earlier analysis
C13_Witness ==
  /\ kind = << "analyze", "analyze", "search" >>
  /\ pc = << "done", "done", "done" >>
  /\ arg[2] = <<" ">> /\ arg[3] = Missing
  /\ res[2].status = 400 /\ res[3].status = 400
  /\ table = { [ id |-> 1, text |-> arg[1] ] }
  /\ aiResult[2] = NoAiResult /\ lastAnalysis[3] = << >>

\* C14: every search request that carries a term is answered with an object
\* holding the term as given and a boolean field named found that carries
\* the search outcome.
C14_SearchResponseHasFound ==
  \A r \in Req :
    Searched(r) =>
      /\ "term" \in DOMAIN res[r].body
      /\ res[r].body.term = arg[r]
      /\ "found" \in DOMAIN res[r].body
      /\ res[r].body.found = termFoundedInLastAnalysis[r]

\* C15: a search whose read of the store failed has the outcome false and
\* is answered 200 with the normal search response, not an error response.
C15_ReadErrorAnswersFalse ==
  \A r \in Req :
    (Searched(r) /\ consoleError[r]) =>
      /\ termFoundedInLastAnalysis[r] = FALSE
      /\ res[r].status = 200
      /\ "error" \notin DOMAIN res[r].body
      /\ res[r].body.term = arg[r]
      /\ res[r].body.termFoundedInLastAnalysis = FALSE

\* a search whose read failed while the table held a text with its term
C15_Witness ==
  \E r \in Req :
    /\ Searched(r) /\ consoleError[r]
    /\ \E row \in table : Contains(row.text, arg[r])
    /\ res[r].status = 200
    /\ ~termFoundedInLastAnalysis[r]

\* C16: the stored record is replaced exactly on successful analysis
\* requests: a successful analysis leaves its own text as the latest row,
\* a search never changes the table, and an analysis request whose model
\* call failed leaves the table as it was.
C16_ReplacedOnlyOnSuccess ==
  [][ \A r \in Req :
        /\ (pc[r] = "insert" /\ pc'[r] = "done" /\ ~consoleError'[r]
             /\ aiResult[r] # NoAiResult)
           => SelectLast(table') # << >> /\ SelectLast(table')[1].text = arg[r]
        /\ (kind[r] = "search" /\ pc'[r] # pc[r]) => table' = table
        /\ (ModelFailed(r) /\ pc'[r] # pc[r]) => table' = table ]_vars

\* entries of list l with the same count and word are in input order
TiesInInputOrder(l) ==
  \A i, j \in DOMAIN l :
    (i < j /\ l[i].count = l[j].count /\ l[i].word = l[j].word)
      => l[i].at < l[j].at

\* C17: entries of the same partition with identical count and word are in
\* the sorted list in the relative order they had in the input.
C17_StableSort ==
  \A r \in Req : Ranked(r) =>
    /\ TiesInInputOrder(output[r].non_stopwords)
    /\ TiesInInputOrder(output[r].stopwords)

\* a ranking whose input repeats a content word three times, apart, behind
\* an entry that the ranking moves past them
C17_Witness ==
  \E r \in Req :
    /\ Ranked(r)
    /\ Len(InputBag(r)) = 6
    /\ InputBag(r)[1].count = 1 /\ InputBag(r)[1].word = <<"B">>
    /\ \A i \in {2, 4, 6} :
         /\ InputBag(r)[i].word = <<"a">> /\ ~InputBag(r)[i].isStopWord
         /\ output[r].non_stopwords[i \div 2].at = i
    /\ ~InputBag(r)[1].isStopWord
    /\ output[r].non_stopwords[4].at = 1

\* C18: every response is computed from its own request: an analysis
\* response carries the idiom and sentiment of that request's completion
\* and exactly the entries of its words list (the error object when its
\* model call failed); a search response carries that request's term and the
\* outcome for the row that request read.
C18_ResponseFromOwnRequest ==
  \A r \in Req :
    /\ (Analyzed(r) /\ aiResult[r] = NoAiResult) =>
         DOMAIN res[r].body = { "error" }
    /\ (Analyzed(r) /\ aiResult[r] # NoAiResult) =>
         LET body == res[r].body
             in == InputBag(r)
         IN  /\ RankingFields \subseteq DOMAIN body
             /\ body.idiom = aiResult[r].idiom
             /\ body.sentiment = aiResult[r].sentiment
             /\ body.total_words = TotalCount(in)
             /\ Entries(body.top_5_words) \subseteq Entries(in)
             /\ \A e \in Entries(in) \cup Entries(body.non_stopwords)
                                      \cup Entries(body.stopwords) :
                  Occurrences(body.non_stopwords, e)
                    + Occurrences(body.stopwords, e) = Occurrences(in, e)
    /\ Searched(r) =>
         /\ res[r].body.term = arg[r]
         /\ res[r].body.termFoundedInLastAnalysis =
              ( /\ ~consoleError[r]
                /\ lastAnalysis[r] # << >>
                /\ Contains(lastAnalysis[r][1].text, arg[r]) )

\* two analysis requests whose saves ran at the same time and whose
\* completions differ, and a search, each answered with its own data
C18_Witness ==
  /\ kind = << "analyze", "analyze", "search" >>
  /\ pc = << "done", "done", "done" >>
  /\ overlapped
  /\ aiResult[1] # NoAiResult /\ aiResult[2] # NoAiResult
  /\ aiResult[1].idiom = "English" /\ aiResult[2].idiom = "Portuguese"
  /\ res[1].status = 200 /\ res[1].body.idiom = "English"
  /\ res[1].body.total_words = 5
  /\ res[2].status = 200 /\ res[2].body.idiom = "Portuguese"
  /\ res[2].body.total_words = 0
  /\ res[3].status = 200 /\ res[3].body.term = <<"b">>
  /\ res[3].body.termFoundedInLastAnalysis

====
